---- MODULE Spec2Model ----
(***************************************************************************)
(* AutoCompleteInput (src/components/AutoCompleteInput/AutoCompleteInput.js)*)
(* A text input with a filtered list of suggestions.  The component keeps  *)
(* no state of its own: the input text, the open flag, the highlighted     *)
(* index and the selected item live in the Downshift element it renders,   *)
(* and every render derives the visible suggestions from the `options`     *)
(* prop and the current input text.                                        *)
(*                                                                         *)
(* Strings are sequences of one-character strings.  A JavaScript value     *)
(* that may be null (the input text handed to a filter, the selected item, *)
(* the argument of a callback) is a record [isNull, text].                 *)
(***************************************************************************)
EXTENDS Integers, Sequences, FiniteSets, TLC

VARIABLES
    options,             \* prop: the candidate options
    clearOnSelect,       \* prop
    hasOnClear,          \* prop: TRUE iff an onClear callback is supplied
    maxNumberOfOptions,  \* prop
    filterOptions,       \* prop: "default" or "injected"
    inputValue,          \* Downshift state
    isOpen,              \* Downshift state
    highlightedIndex,    \* Downshift state, 0-based; NoIndex when null
    selectedItem,        \* Downshift state
    maxOptions,          \* last render: the truncated filtered options
    panelShown,          \* last render: TRUE iff <Options> was rendered
    calls,               \* the calls made while handling the last event
    lastEvent,           \* the last event handled
    before,              \* the Downshift state the last event was handled in
    nOnChange,           \* number of onChange invocations so far
    nSelections,         \* number of selections of a non-empty value so far
    pc,                  \* filter harness: position
    fOptions,            \* filter harness: options argument
    fText,               \* filter harness: inputValue argument
    fOnce,               \* filter harness: filter(O, T)
    fTwice               \* filter harness: filter(filter(O, T), T)

vars == <<options, clearOnSelect, hasOnClear, maxNumberOfOptions, filterOptions,
          inputValue, isOpen, highlightedIndex, selectedItem, maxOptions,
          panelShown, calls, lastEvent, before, nOnChange, nSelections,
          pc, fOptions, fText, fOnce, fTwice>>

compVars == <<options, clearOnSelect, hasOnClear, maxNumberOfOptions, filterOptions,
              inputValue, isOpen, highlightedIndex, selectedItem, maxOptions,
              panelShown, calls, lastEvent, before, nOnChange, nSelections>>

harnessVars == <<pc, fOptions, fText, fOnce, fTwice>>

---------------------------------------------------------------------------
(* Bounds *)

MaxOpts == 3

MaxTextLen == 2

MaxK == 2

MaxSelections == 2

---------------------------------------------------------------------------
(* JavaScript values *)

Null == [isNull |-> TRUE, text |-> <<>>]

Str(s) == [isNull |-> FALSE, text |-> s]

\* JavaScript truthiness of a string-or-null value: null and "" are falsy.
Truthy(v) == ~v.isNull /\ v.text # <<>>

UpperToLower ==
    ("A" :> "a") @@ ("B" :> "b") @@ ("M" :> "m") @@ ("N" :> "n") @@ ("P" :> "p")

\* String.prototype.toLowerCase
ToLowerCase(s) ==
    [i \in 1..Len(s) |-> IF s[i] \in DOMAIN UpperToLower THEN UpperToLower[s[i]] ELSE s[i]]

\* String.prototype.indexOf: the first 0-based position of needle in hay, or -1
IndexOf(hay, needle) ==
    LET hits == {k \in 0..(Len(hay) - Len(needle)) :
                    \A j \in 1..Len(needle) : hay[k + j] = needle[j]}
    IN  IF hits = {} THEN -1 ELSE CHOOSE k \in hits : \A m \in hits : k <= m

\* lodash/fp includes(value, collection): data-last, on a string a substring test
Includes(value, collection) == IndexOf(collection, value) > -1

\* Array.prototype.slice(begin, end) for 0 <= begin, 0 <= end
Slice(s, begin, end) ==
    LET last == IF end < Len(s) THEN end ELSE Len(s)
    IN  IF begin >= last THEN <<>> ELSE SubSeq(s, begin + 1, last)

---------------------------------------------------------------------------
(* Options *)

StringOption(s) == [isString |-> TRUE, value |-> s]

RecordOption(s) == [isString |-> FALSE, value |-> s]

Apple == <<"A", "p", "p", "l", "e">>

Banana == <<"B", "a", "n", "a", "n", "a">>

Mango == <<"M", "a", "n", "g", "o">>

items == {Apple, Banana, Mango}

OptionPool ==
    {StringOption(s) : s \in items \cup {<<>>}} \cup {RecordOption(s) : s \in items}

Alphabet == {"a", "A", "n", "p"}

SeqsUpTo(S, n) == UNION {[1..k -> S] : k \in 0..n}

OptionLists == SeqsUpTo(OptionPool, MaxOpts)

Texts == SeqsUpTo(Alphabet, MaxTextLen)

InputTexts == {Null} \cup {Str(t) : t \in Texts}

---------------------------------------------------------------------------
(* The option filters *)

MIN_INPUT_LENGTH == 2

OptionValue(option) == option.value

\* the filter with the option's text compared as written
defaultFilterOptionsCaseSensitive(opts, text) ==
    IF ~Truthy(text) \/ Len(text.text) < MIN_INPUT_LENGTH
    THEN opts
    ELSE SelectSeq(opts, LAMBDA option :
            Includes(ToLowerCase(text.text), OptionValue(option)))

\* the filter without the minimum input length
defaultFilterOptionsNoMinimum(opts, text) ==
    IF ~Truthy(text)
    THEN opts
    ELSE SelectSeq(opts, LAMBDA option :
            Includes(ToLowerCase(text.text), ToLowerCase(OptionValue(option))))

\* the filter with a scan that stops one option early
defaultFilterOptionsStopsEarly(opts, text) ==
    IF ~Truthy(text) \/ Len(text.text) < MIN_INPUT_LENGTH
    THEN opts
    ELSE SelectSeq(Slice(opts, 0, Len(opts) - 1), LAMBDA option :
            Includes(ToLowerCase(text.text), ToLowerCase(OptionValue(option))))

defaultFilterOptions(opts, text) ==
    IF ~Truthy(text) \/ Len(text.text) < MIN_INPUT_LENGTH
    THEN opts
    ELSE SelectSeq(opts, LAMBDA option :
            Includes(ToLowerCase(text.text), ToLowerCase(OptionValue(option))))

\* the filter the stories inject: no minimum length
storyFilterOptions(opts, text) ==
    IF ~Truthy(text)
    THEN opts
    ELSE SelectSeq(opts, LAMBDA option :
            Includes(ToLowerCase(text.text), ToLowerCase(OptionValue(option))))

ApplyFilter(kind, opts, text) ==
    IF kind = "default" THEN defaultFilterOptions(opts, text)
    ELSE storyFilterOptions(opts, text)

---------------------------------------------------------------------------
(* The render function *)

DefaultMaxNumberOfOptions == 7

NoIndex == -1

\* lodash isEmpty on an array
isEmpty(s) == Len(s) = 0

\* the cap applied to the options before they are filtered
RenderMaxOptionsCapFirst(kind, opts, text, k) == ApplyFilter(kind, Slice(opts, 0, k), text)

\* const filteredOptions = filterOptions(options, inputValue);
\* const maxOptions = filteredOptions.slice(0, maxNumberOfOptions);
RenderMaxOptions(kind, opts, text, k) == Slice(ApplyFilter(kind, opts, text), 0, k)

\* the panel rendered whenever the list is open
RenderPanelWhenOpen(open, shown) == open

\* {isOpen && !isEmpty(maxOptions) && (<Options> ... </Options>)}
RenderPanel(open, shown) == open /\ ~isEmpty(shown)

\* const item = isString(option) ? { value: option } : option;
\* getItemProps({ item: value })
ItemOf(option) == Str(OptionValue(option))

\* Downshift's item count: the items registered by getItemProps in the last render
ItemCount == IF panelShown THEN Len(maxOptions) ELSE 0

---------------------------------------------------------------------------
(* The handlers.  A handler maps a context [inputValue, isOpen,           *)
(* highlightedIndex, selectedItem, calls, pending] to the context it      *)
(* leaves.  `calls` is the log of the calls made; `pending` counts the    *)
(* onSelect notifications of Downshift state changes that React has       *)
(* batched and not yet delivered.                                         *)

Call(fn, arg) == [fn |-> fn, arg |-> arg]

Log(c, fn, arg) == [c EXCEPT !.calls = Append(@, Call(fn, arg))]

Context ==
    [inputValue |-> inputValue, isOpen |-> isOpen, highlightedIndex |-> highlightedIndex,
     selectedItem |-> selectedItem, calls |-> <<>>, pending |-> 0]

RECURSIVE handleChange(_, _, _)

\* Downshift clearSelection(): selectedItem null, inputValue '', the highlight and the
\* open flag back to their defaults; the change of selectedItem notifies onSelect
\* (= handleChange), at once when the update is synchronous, after the running
\* handler when React batches it.
clearSelection(c, sync) ==
    LET d == [Log(c, "clearSelection", Null) EXCEPT
                 !.selectedItem = Null, !.inputValue = Str(<<>>),
                 !.highlightedIndex = NoIndex, !.isOpen = FALSE]
    IN  IF sync THEN handleChange(Log(d, "onSelect", Null), Null, sync)
        ELSE [d EXCEPT !.pending = @ + 1]

\* baseHandleClear that leaves the Downshift state alone
baseHandleClearCallbackOnly(c, sync) ==
    IF hasOnClear THEN Log(c, "onClear", Null) ELSE c

\* baseHandleClear that calls onClear before it clears the selection
baseHandleClearCallbackFirst(c, sync) ==
    clearSelection(IF hasOnClear THEN Log(c, "onClear", Null) ELSE c, sync)

baseHandleClear(c, sync) ==
    LET d == clearSelection(c, sync)
    IN  IF hasOnClear THEN Log(d, "onClear", Null) ELSE d

\* handleChange that reports the selection only when it does not clear
handleChangeClearInsteadOfReport(c, value, sync) ==
    IF Truthy(value)
    THEN IF clearOnSelect THEN baseHandleClear(c, sync) ELSE Log(c, "onChange", value)
    ELSE c

\* handleChange that never clears
handleChangeIgnoresClearOnSelect(c, value, sync) ==
    IF Truthy(value) THEN Log(c, "onChange", value) ELSE c

\* handleChange that reports every notification, the empty ones included
handleChangeReportsEmpty(c, value, sync) ==
    LET d == Log(c, "onChange", value)
    IN  IF Truthy(value) /\ clearOnSelect THEN baseHandleClear(d, sync) ELSE d

handleChange(c, value, sync) ==
    IF Truthy(value)
    THEN LET d == Log(c, "onChange", value)
         IN  IF clearOnSelect THEN baseHandleClear(d, sync) ELSE d
    ELSE c

\* delivery of the batched onSelect(null) notifications
RECURSIVE Flush(_)
Flush(c) ==
    IF c.pending = 0 THEN c
    ELSE Flush(handleChange(Log([c EXCEPT !.pending = @ - 1], "onSelect", Null), Null, FALSE))

\* Downshift selectItem(item), reached from an item's click handler and from Enter on
\* the highlighted item: the state is set, then onSelect(item) is notified.
selectItem(c, item, sync) ==
    LET d == [c EXCEPT !.isOpen = FALSE, !.highlightedIndex = NoIndex,
                       !.selectedItem = item, !.inputValue = Str(item.text)]
    IN  Flush(handleChange(Log(d, "onSelect", item), item, sync))

\* Downshift reset(): closes the list, input text back to the selected item's text
reset(c) ==
    [c EXCEPT !.isOpen = FALSE, !.highlightedIndex = NoIndex,
              !.inputValue = Str(c.selectedItem.text)]

\* Downshift getNextWrappingIndex(moveAmount, baseIndex, itemCount)
getNextWrappingIndex(moveAmount, baseIndex, itemCount) ==
    LET newIndex == baseIndex + moveAmount
    IN  IF newIndex < 0 THEN itemCount - 1
        ELSE IF newIndex >= itemCount THEN 0
        ELSE newIndex

---------------------------------------------------------------------------
(* The component: initial state and events *)

\* the option lists the host supplies
HostOptionLists ==
    { <<>>,
      <<StringOption(Apple), StringOption(Banana), StringOption(Mango)>>,
      <<RecordOption(Banana), StringOption(<<>>), RecordOption(Mango)>> }

\* the texts a user types
TypedTexts == SeqsUpTo({"a", "n"}, MaxTextLen)

NoOption == [isString |-> FALSE, value |-> <<>>]

Event(type, index, option) == [type |-> type, index |-> index, option |-> option]

CountCalls(log, fn) == Cardinality({i \in 1..Len(log) : log[i].fn = fn})

Snapshot == [inputValue |-> inputValue, isOpen |-> isOpen, selectedItem |-> selectedItem]

\* the state an event leaves, the re-render included
Commit(c, event, opts) ==
    /\ options' = opts
    /\ inputValue' = c.inputValue
    /\ isOpen' = c.isOpen
    /\ highlightedIndex' = c.highlightedIndex
    /\ selectedItem' = c.selectedItem
    /\ calls' = c.calls
    /\ lastEvent' = event
    /\ before' = Snapshot
    /\ maxOptions' = RenderMaxOptions(filterOptions, opts, c.inputValue, maxNumberOfOptions)
    /\ panelShown' = RenderPanel(c.isOpen, maxOptions')
    /\ nOnChange' = nOnChange + CountCalls(c.calls, "onChange")
    /\ nSelections' = nSelections +
            (IF event.type \in {"click", "enter"} /\ OptionValue(event.option) # <<>>
             THEN 1 ELSE 0)
    /\ UNCHANGED <<clearOnSelect, hasOnClear, maxNumberOfOptions, filterOptions>>
    /\ UNCHANGED harnessVars

Init ==
    /\ options \in HostOptionLists
    /\ clearOnSelect \in BOOLEAN
    /\ hasOnClear \in BOOLEAN
    /\ maxNumberOfOptions \in (0..MaxK) \cup {DefaultMaxNumberOfOptions}
    /\ filterOptions \in {"default", "injected"}
    /\ selectedItem \in {Null, Str(Apple)}        \* initialSelectedItem
    /\ inputValue = Str(selectedItem.text)
    /\ isOpen = FALSE
    /\ highlightedIndex = NoIndex
    /\ maxOptions = RenderMaxOptions(filterOptions, options, inputValue, maxNumberOfOptions)
    /\ panelShown = RenderPanel(isOpen, maxOptions)
    /\ calls = <<>>
    /\ lastEvent = Event("mount", NoIndex, NoOption)
    /\ before = Snapshot
    /\ nOnChange = 0
    /\ nSelections = 0
    /\ pc = "idle"
    /\ fOptions = <<>>
    /\ fText = Null
    /\ fOnce = <<>>
    /\ fTwice = <<>>

\* the user edits the text: Downshift opens the list and drops the highlight
ChangeInput(t) ==
    /\ Str(t) # inputValue
    /\ Commit([Context EXCEPT !.inputValue = Str(t), !.isOpen = TRUE,
                              !.highlightedIndex = NoIndex],
              Event("input", NoIndex, NoOption), options)

\* the input loses focus, or the user clicks outside
Blur ==
    Commit(reset(Context), Event("blur", NoIndex, NoOption), options)

\* ArrowDown / ArrowUp: opens a closed list, then moves the highlight over the
\* rendered items
Arrow(moveAmount) ==
    LET count == IF isOpen THEN ItemCount
                 ELSE Len(RenderMaxOptions(filterOptions, options, inputValue,
                                           maxNumberOfOptions))
        moved == IF count = 0 THEN highlightedIndex
                 ELSE getNextWrappingIndex(moveAmount, highlightedIndex, count)
    IN  Commit([Context EXCEPT !.isOpen = TRUE, !.highlightedIndex = moved],
               Event("arrow", NoIndex, NoOption), options)

\* a click on the rendered suggestion at index i
ClickItem(i, sync) ==
    /\ panelShown
    /\ i < Len(maxOptions)
    /\ nSelections < MaxSelections
    /\ Commit(selectItem(Context, ItemOf(maxOptions[i + 1]), sync),
              Event("click", i, maxOptions[i + 1]), options)

\* Enter on the highlighted suggestion
Enter(sync) ==
    /\ isOpen
    /\ highlightedIndex # NoIndex
    /\ highlightedIndex < ItemCount
    /\ nSelections < MaxSelections
    /\ Commit(selectItem(Context, ItemOf(maxOptions[highlightedIndex + 1]), sync),
              Event("enter", highlightedIndex, maxOptions[highlightedIndex + 1]), options)

\* Escape: Downshift resets with selectedItem null and inputValue ''
Escape ==
    Commit(Flush(handleChange(
               Log([reset(Context) EXCEPT !.selectedItem = Null, !.inputValue = Str(<<>>)],
                   "onSelect", Null), Null, FALSE)),
           Event("escape", NoIndex, NoOption), options)

\* const handleClear = onClear ? baseHandleClear : null;
\* the clear affordance of the input
Clear(sync) ==
    /\ hasOnClear
    /\ Commit(Flush(baseHandleClear(Context, sync)),
              Event("clear", NoIndex, NoOption), options)

\* the host supplies new options
SetOptions(opts) ==
    /\ opts # options
    /\ Commit(Context, Event("options", NoIndex, NoOption), opts)

Next ==
    \/ \E t \in TypedTexts : ChangeInput(t)
    \/ Blur
    \/ \E m \in {-1, 1} : Arrow(m)
    \/ \E i \in 0..(MaxOpts - 1), sync \in BOOLEAN : ClickItem(i, sync)
    \/ \E sync \in BOOLEAN : Enter(sync)
    \/ Escape
    \/ \E sync \in BOOLEAN : Clear(sync)
    \/ \E opts \in HostOptionLists : SetOptions(opts)

Spec == Init /\ [][Next]_vars

---------------------------------------------------------------------------
(* The default filter as a pure function: it is called on every options   *)
(* sequence and every input text of the bounds, then again on its result.  *)

FilterInit ==
    /\ pc = "start"
    /\ fOptions \in OptionLists
    /\ fText \in InputTexts
    /\ fOnce = <<>>
    /\ fTwice = <<>>
    /\ options = <<>>
    /\ clearOnSelect = FALSE
    /\ hasOnClear = FALSE
    /\ maxNumberOfOptions = DefaultMaxNumberOfOptions
    /\ filterOptions = "default"
    /\ selectedItem = Null
    /\ inputValue = Str(<<>>)
    /\ isOpen = FALSE
    /\ highlightedIndex = NoIndex
    /\ maxOptions = <<>>
    /\ panelShown = FALSE
    /\ calls = <<>>
    /\ lastEvent = Event("mount", NoIndex, NoOption)
    /\ before = Snapshot
    /\ nOnChange = 0
    /\ nSelections = 0

CallFilter ==
    /\ pc = "start"
    /\ fOnce' = defaultFilterOptions(fOptions, fText)
    /\ pc' = "once"
    /\ UNCHANGED <<fOptions, fText, fTwice>>
    /\ UNCHANGED compVars

CallFilterAgain ==
    /\ pc = "once"
    /\ fTwice' = defaultFilterOptions(fOnce, fText)
    /\ pc' = "twice"
    /\ UNCHANGED <<fOptions, fText, fOnce>>
    /\ UNCHANGED compVars

FilterNext == CallFilter \/ CallFilterAgain

FilterSpec == FilterInit /\ [][FilterNext]_vars

---------------------------------------------------------------------------
(* Properties of the default filter (FilterSpec) *)

CasePairs == {{"a", "A"}, {"b", "B"}, {"m", "M"}, {"n", "N"}, {"p", "P"}}

SameLetter(x, y) == x = y \/ {x, y} \in CasePairs

\* t occurs in s as a substring, letter case ignored
ContainsIgnoringCase(s, t) ==
    \E k \in 0..(Len(s) - Len(t)) : \A j \in 1..Len(t) : SameLetter(s[k + j], t[j])

\* r lists, in O's order and once each, exactly the elements of O at the positions in M
IsSelection(r, O, M) ==
    /\ Len(r) = Cardinality(M)
    /\ \E f \in [1..Len(r) -> M] :
          /\ \A a, b \in 1..Len(r) : a < b => f[a] < f[b]
          /\ \A a \in 1..Len(r) : r[a] = O[f[a]]

\* C1: for an input text T of length >= 2 the default filter returns exactly the
\* subsequence of the options whose string, or whose record's value, contains T as a
\* case-insensitive substring, in the original order, nothing missing, added,
\* duplicated or reordered.
C1_FilterIsMatchingSubsequence ==
    (pc # "start" /\ ~fText.isNull /\ Len(fText.text) >= 2) =>
        IsSelection(fOnce, fOptions,
                    {i \in 1..Len(fOptions) :
                        ContainsIgnoringCase(fOptions[i].value, fText.text)})

\* O = ["Apple","Banana","Mango"], T = "an" gives ["Banana","Mango"]
C1_Witness ==
    /\ pc = "once"
    /\ fOptions = <<StringOption(Apple), StringOption(Banana), StringOption(Mango)>>
    /\ fText = Str(<<"a", "n">>)
    /\ fOnce = <<StringOption(Banana), StringOption(Mango)>>

\* C2: for an input text that is absent, empty or shorter than 2 characters the
\* default filter returns the options unchanged.
C2_ShortInputPassthrough ==
    (pc # "start" /\ (fText.isNull \/ Len(fText.text) < 2)) => fOnce = fOptions

\* O = ["Apple"], T = "a" gives ["Apple"]; and an option that does not contain a
\* one-character text is kept
C2_Witness ==
    /\ pc = "once"
    /\ fText = Str(<<"p">>)
    /\ fOptions = <<StringOption(Mango), StringOption(Apple)>>
    /\ fOnce = fOptions

\* C8: the default filter is idempotent on every non-empty options sequence and
\* every text: filter(filter(O,T),T) = filter(O,T).
C8_FilterIdempotent ==
    (pc = "twice" /\ fOptions # <<>>) => fTwice = fOnce

\* a second call on a result that dropped an option and kept two
C8_Witness ==
    /\ pc = "twice"
    /\ Len(fOptions) = 3
    /\ Len(fOnce) = 2
    /\ fTwice = fOnce

---------------------------------------------------------------------------
(* Properties of the component (Spec) *)

Selected == lastEvent.type \in {"click", "enter"}

SelectedValue == OptionValue(lastEvent.option)

OnChangeCalls == SelectSeq(calls, LAMBDA call : call.fn = "onChange")

Filtered == ApplyFilter(filterOptions, options, inputValue)

\* C5: in every render, for the default and for the injected filter, the suggestions
\* are the first maxNumberOfOptions elements of filter(options, inputText), in that
\* order: the cap is applied after the filter.
C5_TruncationAfterFilter ==
    /\ Len(maxOptions) =
          (IF Len(Filtered) < maxNumberOfOptions THEN Len(Filtered) ELSE maxNumberOfOptions)
    /\ \A i \in 1..Len(maxOptions) : maxOptions[i] = Filtered[i]

\* one suggestion shown of two matches, and it lies beyond the cap in the options
C5_Witness ==
    /\ panelShown
    /\ maxNumberOfOptions = 1
    /\ options = <<StringOption(Apple), StringOption(Banana), StringOption(Mango)>>
    /\ inputValue = Str(<<"a", "n">>)
    /\ maxOptions = <<StringOption(Banana)>>

\* C6: in every reachable state the suggestion panel is rendered if and only if the
\* list is open and the truncated filtered list is non-empty; an empty panel is never
\* rendered.
C6_PanelOnlyWithOptions ==
    /\ panelShown <=> (isOpen /\ maxNumberOfOptions > 0 /\ Len(Filtered) > 0)
    /\ panelShown => Len(maxOptions) > 0

\* the list is open, options exist and the cap is positive, but nothing matches
C6_Witness ==
    /\ isOpen
    /\ ~panelShown
    /\ options # <<>>
    /\ maxNumberOfOptions > 0

\* C7: the clear affordance resets the input text and the selection to empty, closes
\* the list and invokes onClear exactly once, from every state.
C7_ClearResets ==
    lastEvent.type = "clear" =>
        /\ inputValue = Str(<<>>)
        /\ selectedItem = Null
        /\ ~isOpen
        /\ ~panelShown
        /\ CountCalls(calls, "onClear") = 1

\* a clear from an open list with a selected item and a typed text
C7_Witness ==
    /\ lastEvent.type = "clear"
    /\ before.isOpen
    /\ Truthy(before.selectedItem)
    /\ before.inputValue = Str(<<"a", "n">>)
    /\ CountCalls(calls, "onClear") = 1

\* C9: onChange is never invoked with an empty or null value; clearing the selection
\* (explicit clear, Escape, or the clear after a clearOnSelect selection) notifies the
\* selection handler with an empty selection and invokes no onChange; the number of
\* onChange invocations is the number of selections of a non-empty value.
C9_OnChangeOnlyForValues ==
    /\ \A i \in 1..Len(calls) : calls[i].fn = "onChange" => Truthy(calls[i].arg)
    /\ ~Selected => OnChangeCalls = <<>>
    /\ nOnChange = nSelections

\* a clearOnSelect selection whose clear notified an empty selection
C9_Witness ==
    /\ Selected
    /\ clearOnSelect
    /\ \E i \in 1..Len(calls) : calls[i] = Call("onSelect", Null)
    /\ nOnChange = 2

Position(log, call) == CHOOSE i \in 1..Len(log) : log[i] = call

\* C10: with clearOnSelect, one selection of a non-empty value v runs a finite chain
\* in a fixed order: onChange(v), then the selection is cleared, then onClear (if
\* supplied) once; the empty-selection notification the clear causes triggers no
\* further clear and no further callback.
C10_SelectionChain ==
    (Selected /\ clearOnSelect /\ SelectedValue # <<>>) =>
        /\ calls[1] = Call("onSelect", Str(SelectedValue))
        /\ SelectSeq(calls, LAMBDA call : call.fn # "onSelect") =
              <<Call("onChange", Str(SelectedValue)), Call("clearSelection", Null)>>
              \o (IF hasOnClear THEN <<Call("onClear", Null)>> ELSE <<>>)
        /\ CountCalls(calls, "onSelect") = 2
        /\ Position(calls, Call("onSelect", Null)) > Position(calls, Call("clearSelection", Null))

\* the chain with onClear supplied and the empty notification delivered last
C10_Witness ==
    /\ Selected
    /\ clearOnSelect
    /\ hasOnClear
    /\ Len(calls) = 5
    /\ calls[5] = Call("onSelect", Null)

====
